---- MODULE Spec2Model ----
(***************************************************************************)
(* Model of the Hannover Buergeramt appointment bot (src/bot.py and the    *)
(* buergeramt_termine package): the appointment store, the subscriber      *)
(* store, the Telegram command handlers and the scheduler thread that      *)
(* downloads the appointments and notifies the subscribers.                *)
(*                                                                         *)
(* A date is a day number; a date_time is  day * SlotsPerDay + slot,       *)
(* so that date() is integer division and a timedelta's .days is the       *)
(* floored quotient of a date_time difference.  A message text is a        *)
(* sequence of lines; the empty string is the empty sequence.              *)
(***************************************************************************)
EXTENDS Integers, Sequences, FiniteSets, TLC

\* ------------------------------------------------------------------ bounds
MaxDay == 0
MaxApps == 2
MaxChats == 2
MaxSnapshot == 4
MaxTimes == 7
MaxDates == 7
SlotsPerDay == 8

\* --------------------------------------------------------- program constants
GapDays == 6
SplitAt == 5
ShortenBy == 2

Slots == {0, 1}
Locations == {1, 2}
Chats == 1..MaxChats
FarDay == MaxDay + GapDays + 1
AppDays == (0..MaxDay) \cup {FarDay}
Deadlines == 0..(MaxDay + 1)

NoId == 0

VARIABLES
    today,      \* datetime.date.today()
    apps,       \* table "appointments": rows in the order list() returns them
    users,      \* table "users": set of rows [chat_id, deadline]
    sched_pc,   \* position of the main/scheduler thread
    dl_result,  \* how the last call of the download ended
    apps_cur,   \* check_appointments_and_notify: local apps_cur
    cyc_users,  \* check_appointments_and_notify: local users
    cyc_done,   \* check_appointments_and_notify: passes of the loop completed
    sent,       \* messages sent by the cycle in progress
    last,       \* the request handled last and the kind of reply it got
    replies     \* the messages the handler of that request sent, in order

vars ==
    <<today, apps, users, sched_pc, dl_result, apps_cur, cyc_users, cyc_done, sent, last,
      replies>>

\* ----------------------------------------------------------------- models.py
Appointment(id, dt, loc) == [id |-> id, date_time |-> dt, location_id |-> loc]

\* Location.name, as its rank in the lexicographic order of the names
LocationName(loc_id) == 10 - loc_id

Date(dt) == dt \div SlotsPerDay
TimeOf(dt) == dt % SlotsPerDay

AppEq_WithId(a, b) ==
    a.id = b.id /\ a.date_time = b.date_time /\ a.location_id = b.location_id

\* Appointment.__eq__
AppEq(a, b) ==
    a.date_time = b.date_time /\ a.location_id = b.location_id

\* Appointment.__gt__
AppGt(a, b) ==
    IF a.date_time = b.date_time
    THEN LocationName(a.location_id) > LocationName(b.location_id)
    ELSE a.date_time > b.date_time

\* a in lst / a not in lst, on a list of appointments
AppIn(a, lst) == \E i \in DOMAIN lst : AppEq(lst[i], a)

\* lst1 == lst2 on lists of appointments
ListEq(l1, l2) ==
    Len(l1) = Len(l2) /\ \A i \in DOMAIN l1 : AppEq(l1[i], l2[i])

\* User.deadline setter: TRUE iff it raises ValueError
DeadlineInPast_NoCheck(deadline, now) == FALSE

DeadlineInPast(deadline, now) == deadline < now

\* --------------------------------------------------------- list utilities
RECURSIVE InsertSorted(_, _, _)
\* insert x into the sorted list s after every element that is not greater
\* (rev: that is not smaller), as the stable list.sort() places it
InsertSorted(x, s, rev) ==
    IF s = <<>> THEN <<x>>
    ELSE IF (IF rev THEN AppGt(x, Head(s)) ELSE AppGt(Head(s), x))
         THEN <<x>> \o s
         ELSE <<Head(s)>> \o InsertSorted(x, Tail(s), rev)

RECURSIVE SortApps(_, _)
\* sorted(lst) / sorted(lst, reverse=True)
SortApps(lst, rev) ==
    IF lst = <<>> THEN <<>>
    ELSE InsertSorted(lst[Len(lst)], SortApps(SubSeq(lst, 1, Len(lst) - 1), rev), rev)

RECURSIVE SortedInts(_)
\* sorted(set of integers)
SortedInts(S) ==
    IF S = {} THEN <<>>
    ELSE LET m == CHOOSE x \in S : \A y \in S : x <= y
         IN <<m>> \o SortedInts(S \ {m})

Range(s) == {s[i] : i \in DOMAIN s}

RECURSIVE Concat(_)
Concat(ss) == IF ss = <<>> THEN <<>> ELSE Head(ss) \o Concat(Tail(ss))

\* ------------------------------------------------------------ repositories.py
\* AppointmentRepository.list
list_appointments == apps

\* the comprehension of AppointmentRepository.appointments_earlier_than
earlier_than(lst, date) ==
    SelectSeq(lst, LAMBDA a : Date(a.date_time) < date)

\* AppointmentRepository.appointments_earlier_than
appointments_earlier_than(date) == earlier_than(list_appointments, date)

DeltaDays_OfDates(later, earlier) == Date(later.date_time) - Date(earlier.date_time)

\* timedelta.days of (later.date_time - earlier.date_time)
DeltaDays(later, earlier) == (later.date_time - earlier.date_time) \div SlotsPerDay

date_considered_early_LastGap(lst) ==
    LET apps_sorted_rev == SortApps(lst, TRUE)
        n == Len(apps_sorted_rev)
        gaps == {i \in 1..(n - 1) :
                    DeltaDays(apps_sorted_rev[i], apps_sorted_rev[i + 1]) > GapDays}
    IN IF gaps = {}
       THEN Date(apps_sorted_rev[n].date_time)
       ELSE LET i == CHOOSE k \in gaps : \A j \in gaps : k >= j
            IN Date(apps_sorted_rev[i].date_time)

date_considered_early_FromLatest(lst) ==
    LET apps_sorted_rev == SortApps(lst, TRUE)
        n == Len(apps_sorted_rev)
        gaps == {i \in 1..(n - 1) :
                    DeltaDays(apps_sorted_rev[i], apps_sorted_rev[i + 1]) > GapDays}
    IN IF gaps = {}
       THEN Date(apps_sorted_rev[1].date_time)
       ELSE LET i == CHOOSE k \in gaps : \A j \in gaps : k <= j
            IN Date(apps_sorted_rev[i].date_time)

\* AppointmentRepository.get_date_considered_early on a non-empty table
date_considered_early(lst) ==
    LET apps_sorted_rev == SortApps(lst, TRUE)
        n == Len(apps_sorted_rev)
        gaps == {i \in 1..(n - 1) :
                    DeltaDays(apps_sorted_rev[i], apps_sorted_rev[i + 1]) > GapDays}
    IN IF gaps = {}
       THEN Date(apps_sorted_rev[n].date_time)
       ELSE LET i == CHOOSE k \in gaps : \A j \in gaps : k <= j
            IN Date(apps_sorted_rev[i].date_time)

\* AppointmentRepository.get_date_considered_early: apps_sorted_rev[-1]
\* raises IndexError on an empty table
get_date_considered_early_raises == list_appointments = <<>>

get_date_considered_early == date_considered_early(list_appointments)

\* AppointmentRepository.empty
app_repo_empty == Len(list_appointments) = 0

\* UserRepository.list: the rows in primary key order
RECURSIVE SortedUsers(_)
SortedUsers(S) ==
    IF S = {} THEN <<>>
    ELSE LET u == CHOOSE x \in S : \A y \in S :
                     \/ x.chat_id < y.chat_id
                     \/ (x.chat_id = y.chat_id /\ x.deadline <= y.deadline)
         IN <<u>> \o SortedUsers(S \ {u})

list_users == SortedUsers(users)

\* UserRepository.empty
user_repo_empty == Len(list_users) = 0

\* UserRepository.get_by_chat_id: the rows that match; .first() is None
\* when there is none
rows_by_chat_id(chat_id) == {u \in users : u.chat_id = chat_id}

get_by_chat_id(chat_id) ==
    CHOOSE u \in rows_by_chat_id(chat_id) :
        \A v \in rows_by_chat_id(chat_id) : u.deadline <= v.deadline

User(chat_id, deadline) == [chat_id |-> chat_id, deadline |-> deadline]

\* ------------------------------------------------------- bot.py: rendering
Line(kind, name, date, times, count) ==
    [kind |-> kind, name |-> name, date |-> date, times |-> times, count |-> count]

Text(kind) == Line(kind, 0, 0, <<>>, 0)

TimesOf(lst) == [i \in DOMAIN lst |-> TimeOf(lst[i].date_time)]

format_apps_date_NoShorten(apps_loc_date, split_at) ==
    LET srt == SortApps(apps_loc_date, FALSE)
    IN <<Line("date", 0, Date(srt[1].date_time), TimesOf(srt), 0)>>

\* _format_apps_date
format_apps_date(apps_loc_date, split_at) ==
    LET srt == SortApps(apps_loc_date, FALSE)
        date == Date(srt[1].date_time)
    IN IF Len(srt) <= split_at
       THEN <<Line("date", 0, date, TimesOf(srt), 0)>>
       ELSE LET shorten_after == split_at - ShortenBy
                app_list_date_first == SubSeq(srt, 1, shorten_after)
                app_list_date_rest == SubSeq(srt, shorten_after + 1, Len(srt))
            IN <<Line("date", 0, date, TimesOf(app_list_date_first),
                      Len(app_list_date_rest))>>

format_apps_CountsDates(apps_loc, split_at) ==
    LET apps_loc_dates == SortedInts({Date(apps_loc[i].date_time) : i \in DOMAIN apps_loc})
        n == Len(apps_loc_dates)
        loc_first == SubSeq(apps_loc_dates, 1, IF n < split_at THEN n ELSE split_at)
        loc_rest == SubSeq(apps_loc_dates, split_at + 1, n)
        head == <<Line("location", LocationName(apps_loc[1].location_id), 0, <<>>, 0)>>
        lines == Concat([i \in DOMAIN loc_first |->
                    format_apps_date(
                        SelectSeq(apps_loc, LAMBDA a : Date(a.date_time) = loc_first[i]),
                        SplitAt)])
        rest == IF loc_rest = <<>> THEN <<>>
                ELSE IF Len(loc_rest) = 1
                     THEN <<Line("one_more", 0, 0, <<>>, 1)>>
                     ELSE <<Line("n_more", 0, 0, <<>>, Len(loc_rest))>>
    IN head \o lines \o rest

\* _format_apps
format_apps(apps_loc, split_at) ==
    LET apps_loc_dates == SortedInts({Date(apps_loc[i].date_time) : i \in DOMAIN apps_loc})
        n == Len(apps_loc_dates)
        loc_first == SubSeq(apps_loc_dates, 1, IF n < split_at THEN n ELSE split_at)
        loc_rest == SubSeq(apps_loc_dates, split_at + 1, n)
        head == <<Line("location", LocationName(apps_loc[1].location_id), 0, <<>>, 0)>>
        lines == Concat([i \in DOMAIN loc_first |->
                    format_apps_date(
                        SelectSeq(apps_loc, LAMBDA a : Date(a.date_time) = loc_first[i]),
                        SplitAt)])
        app_rest == SelectSeq(apps_loc, LAMBDA a : Date(a.date_time) \in Range(loc_rest))
        rest == IF loc_rest = <<>> THEN <<>>
                ELSE IF Len(app_rest) = 1
                     THEN <<Line("one_more", 0, 0, <<>>, 1)>>
                     ELSE <<Line("n_more", 0, 0, <<>>, Len(app_rest))>>
    IN head \o lines \o rest

notification_stored_apps_EmptyIfNone(deadline) ==
    LET early_apps == appointments_earlier_than(deadline)
        early_loc_ids == SortedInts({early_apps[i].location_id : i \in DOMAIN early_apps})
    IN Concat([k \in DOMAIN early_loc_ids |->
            format_apps(
                SelectSeq(early_apps, LAMBDA a : a.location_id = early_loc_ids[k]),
                SplitAt)])

\* notification_stored_apps
notification_stored_apps(deadline) ==
    LET early_apps == appointments_earlier_than(deadline)
        early_loc_ids == SortedInts({early_apps[i].location_id : i \in DOMAIN early_apps})
    IN IF early_apps = <<>>
       THEN <<Text("none_before_deadline")>>
       ELSE <<Text("header_before_deadline")>> \o
            Concat([k \in DOMAIN early_loc_ids |->
                format_apps(
                    SelectSeq(early_apps, LAMBDA a : a.location_id = early_loc_ids[k]),
                    SplitAt)])

before_OrOn(a, deadline) == Date(a.date_time) <= deadline

\* a.date_time.date() < deadline, as notification_apps_diff tests it
before(a, deadline) == Date(a.date_time) < deadline

apps_stored_early_Unfiltered(deadline) == list_appointments

\* notification_apps_diff: the lists app_new and app_gone
apps_stored_early(deadline) == appointments_earlier_than(deadline)

apps_cur_early(deadline, cur) == SelectSeq(cur, LAMBDA a : before(a, deadline))

app_new_All(deadline, cur) == apps_cur_early(deadline, cur)

app_new(deadline, cur) ==
    SelectSeq(apps_cur_early(deadline, cur),
              LAMBDA a : ~AppIn(a, apps_stored_early(deadline)))

app_gone_OfAllStored(deadline, cur) ==
    SelectSeq(list_appointments,
              LAMBDA a : ~AppIn(a, apps_cur_early(deadline, cur)))

app_gone(deadline, cur) ==
    SelectSeq(apps_stored_early(deadline),
              LAMBDA a : ~AppIn(a, apps_cur_early(deadline, cur)))

\* notification_apps_diff
notification_apps_diff(deadline, cur) ==
    LET new == app_new(deadline, cur)
        gone == app_gone(deadline, cur)
        both == new \o gone
        early_loc_ids == SortedInts({both[i].location_id :
                            i \in {j \in DOMAIN both : before(both[j], deadline)}})
        new_loc(loc_id) ==
            SelectSeq(new, LAMBDA a : a.location_id = loc_id /\ before(a, deadline))
        gone_loc(loc_id) ==
            SelectSeq(gone, LAMBDA a : a.location_id = loc_id /\ before(a, deadline))
        reply_new == Concat([k \in DOMAIN early_loc_ids |->
                        IF new_loc(early_loc_ids[k]) # <<>>
                        THEN format_apps(new_loc(early_loc_ids[k]), SplitAt)
                        ELSE <<>>])
        reply_gone == Concat([k \in DOMAIN early_loc_ids |->
                        IF gone_loc(early_loc_ids[k]) # <<>>
                        THEN format_apps(gone_loc(early_loc_ids[k]), SplitAt)
                        ELSE <<>>])
    IN IF early_loc_ids = <<>>
       THEN <<>>
       ELSE (IF reply_new # <<>> THEN <<Text("header_new")>> \o reply_new ELSE <<>>)
            \o
            (IF reply_gone # <<>> THEN <<Text("header_gone")>> \o reply_gone ELSE <<>>)

\* ------------------------------------------------- crawler.py: the download
\* the Appointment objects the crawler builds: transient, without an id
Offers(date_times) ==
    {Appointment(NoId, dt, loc) : dt \in date_times, loc \in Locations}

RECURSIVE ListsUpTo(_, _)
ListsUpTo(n, S) ==
    IF n = 0 THEN {<<>>}
    ELSE LET shorter == ListsUpTo(n - 1, S)
         IN shorter \cup {Append(l, a) : l \in {x \in shorter : Len(x) = n - 1}, a \in S}

\* what the download can return: a list in any order, a slot possibly more
\* than once.  AllDownloads: every location and time of day; Downloads: the
\* first time of day at the first location
AllDownloads ==
    ListsUpTo(MaxApps, Offers({d * SlotsPerDay + t : d \in AppDays, t \in Slots}))

Downloads ==
    {dl \in AllDownloads :
        \A i \in DOMAIN dl : dl[i].location_id = 1 /\ TimeOf(dl[i].date_time) = 0}

\* ------------------------------------------- store_new_appointments (apply)
RECURSIVE Distinct(_)
\* the first occurrence of every slot of a list
Distinct(lst) ==
    IF lst = <<>> THEN <<>>
    ELSE LET front == Distinct(SubSeq(lst, 1, Len(lst) - 1))
             a == lst[Len(lst)]
         IN IF AppIn(a, front) THEN front ELSE Append(front, a)

RECURSIVE WithFreshIds(_, _)
\* rows for the added appointments, each with the smallest id not in use
WithFreshIds(added, used) ==
    IF added = <<>> THEN <<>>
    ELSE LET id == CHOOSE i \in 1..(Cardinality(used) + 1) : i \notin used
         IN <<Appointment(id, Head(added).date_time, Head(added).location_id)>>
            \o WithFreshIds(Tail(added), used \cup {id})

\* AppointmentRepository.store_new_appointments: the rows no longer offered
\* are deleted, the rows still offered stay, the new slots are inserted
store_new_appointments(cur) ==
    LET kept == SelectSeq(apps, LAMBDA a : AppIn(a, cur))
        added == SelectSeq(Distinct(cur), LAMBDA a : ~AppIn(a, apps))
    IN kept \o WithFreshIds(added, {kept[i].id : i \in DOMAIN kept})

\* ------------------------------------------------------------------- state
NoRequest ==
    [op |-> "none", chat_id |-> 0, deadline |-> 0, reply |-> "none"]

Request(op, chat_id, deadline, reply) ==
    [op |-> op, chat_id |-> chat_id, deadline |-> deadline, reply |-> reply]

Message(usr, text) ==
    [chat_id |-> usr.chat_id, deadline |-> usr.deadline, text |-> text]

Init ==
    /\ today = 0
    /\ apps = <<>>
    /\ users = {}
    /\ sched_pc = "import"
    /\ dl_result = "none"
    /\ apps_cur = <<>>
    /\ cyc_users = <<>>
    /\ cyc_done = 0
    /\ sent = {}
    /\ last = NoRequest
    /\ replies = <<>>

\* BOT.polling() runs once main() has passed the initial import
Polling == sched_pc \notin {"import", "crashed"}

cycle_locals == <<apps_cur, cyc_users, cyc_done, sent>>

\* ------------------------------------------------------ bot.py: the handlers
summary_reply_AlwaysPlural(deadline) ==
    LET app_early == appointments_earlier_than(deadline)
    IN <<Line("summary_many", 0, get_date_considered_early, <<>>, Len(app_early))>>

\* new_deadline, lines 119-130: the reply when the deadline is later than the
\* date considered early
summary_reply(deadline) ==
    LET app_early == appointments_earlier_than(deadline)
    IN <<Line(IF Len(app_early) = 1 THEN "summary_one" ELSE "summary_many",
              0, get_date_considered_early, <<>>, Len(app_early))>>

upsert_user_AlwaysAdd(chat_id, deadline) == users \cup {User(chat_id, deadline)}

\* new_deadline, lines 134-146: the users table after the add or the update
upsert_user(chat_id, deadline) ==
    IF rows_by_chat_id(chat_id) = {}
    THEN users \cup {User(chat_id, deadline)}
    ELSE (users \ {get_by_chat_id(chat_id)}) \cup {User(chat_id, deadline)}

\* the /deadline handler, for a request whose date parses
new_deadline(chat_id, deadline) ==
    /\ Polling
    /\ IF get_date_considered_early_raises
       THEN /\ last' = Request("deadline", chat_id, deadline, "IndexError")
            /\ replies' = <<>>
            /\ UNCHANGED users
       ELSE IF deadline > get_date_considered_early
       THEN /\ last' = Request("deadline", chat_id, deadline, "summary")
            /\ replies' = <<summary_reply(deadline)>>
            /\ UNCHANGED users
       ELSE IF DeadlineInPast(deadline, today)
       THEN /\ last' = Request("deadline", chat_id, deadline, "in_past")
            /\ replies' = <<<<Text("deadline_in_past")>>>>
            /\ UNCHANGED users
       ELSE LET kind == IF rows_by_chat_id(chat_id) = {} THEN "added" ELSE "updated"
                notification == notification_stored_apps(deadline)
            IN /\ users' = upsert_user(chat_id, deadline)
               /\ last' = Request("deadline", chat_id, deadline, kind)
               /\ replies' = <<<<Text(kind)>>>> \o
                                (IF notification # <<>> THEN <<notification>> ELSE <<>>)
    /\ UNCHANGED <<today, apps, sched_pc, dl_result, cycle_locals>>

\* the /stop handler
delete_user(chat_id) ==
    /\ Polling
    /\ IF rows_by_chat_id(chat_id) = {}
       THEN /\ last' = Request("stop", chat_id, 0, "no_user")
            /\ replies' = <<<<Text("no_user")>>>>
            /\ UNCHANGED users
       ELSE /\ users' = users \ {get_by_chat_id(chat_id)}
            /\ last' = Request("stop", chat_id, 0, "stopped")
            /\ replies' = <<<<Text("stopped")>>>>
    /\ UNCHANGED <<today, apps, sched_pc, dl_result, cycle_locals>>

\* ----------------------------------------------------- bot.py: the scheduler
\* main: _import_appointments_if_db_empty, then the scheduler thread starts
ImportAppointments(dl) ==
    /\ sched_pc = "import"
    /\ IF app_repo_empty
       THEN /\ apps' = store_new_appointments(dl)
            /\ dl_result' = "ok"
       ELSE UNCHANGED <<apps, dl_result>>
    /\ sched_pc' = "idle"
    /\ UNCHANGED <<today, users, cycle_locals, last, replies>>

\* the download of the initial import raises: main() ends with the exception
ImportDownloadFails ==
    /\ sched_pc = "import"
    /\ app_repo_empty
    /\ dl_result' = "failed"
    /\ sched_pc' = "crashed"
    /\ UNCHANGED <<today, apps, users, cycle_locals, last, replies>>

CycleBegin_NoUserCheck(dl) ==
    /\ sched_pc = "idle"
    /\ dl_result' = "ok"
    /\ LET apps_old == list_appointments
       IN IF ListEq(dl, apps_old)
          THEN UNCHANGED <<sched_pc, cycle_locals>>
          ELSE /\ apps_cur' = dl
               /\ cyc_users' = list_users
               /\ cyc_done' = 0
               /\ sched_pc' = "notify"
               /\ UNCHANGED sent
    /\ UNCHANGED <<today, apps, users, last, replies>>

\* check_appointments_and_notify, lines 335-353: nothing to do without users;
\* otherwise download (dl), return if the lists are equal, else list the users
CycleBegin(dl) ==
    /\ sched_pc = "idle"
    /\ IF user_repo_empty
       THEN UNCHANGED <<sched_pc, dl_result, cycle_locals>>
       ELSE /\ dl_result' = "ok"
            /\ LET apps_old == list_appointments
               IN IF ListEq(dl, apps_old)
                  THEN UNCHANGED <<sched_pc, cycle_locals>>
                  ELSE /\ apps_cur' = dl
                       /\ cyc_users' = list_users
                       /\ cyc_done' = 0
                       /\ sched_pc' = "notify"
                       /\ UNCHANGED sent
    /\ UNCHANGED <<today, apps, users, last, replies>>

CycleDownloadFails_AsEmpty ==
    /\ sched_pc = "idle"
    /\ ~user_repo_empty
    /\ dl_result' = "failed"
    /\ apps_cur' = <<>>
    /\ cyc_users' = list_users
    /\ cyc_done' = 0
    /\ sched_pc' = "notify"
    /\ UNCHANGED <<today, apps, users, sent, last, replies>>

\* check_appointments_and_notify, line 346: the download raises; nothing
\* catches the exception, so it ends the job, run_pending and the thread
CycleDownloadFails ==
    /\ sched_pc = "idle"
    /\ ~user_repo_empty
    /\ dl_result' = "failed"
    /\ sched_pc' = "dead"
    /\ UNCHANGED <<today, apps, users, cycle_locals, last, replies>>

CycleNotify_SendEmpty ==
    /\ sched_pc = "notify"
    /\ cyc_done < Len(cyc_users)
    /\ LET usr == cyc_users[cyc_done + 1]
           reply == notification_apps_diff(usr.deadline, apps_cur)
       IN sent' = sent \cup {Message(usr, reply)}
    /\ cyc_done' = cyc_done + 1
    /\ UNCHANGED <<today, apps, users, sched_pc, dl_result, apps_cur, cyc_users, last, replies>>

\* check_appointments_and_notify, lines 354-360: one pass of the loop
CycleNotify ==
    /\ sched_pc = "notify"
    /\ cyc_done < Len(cyc_users)
    /\ LET usr == cyc_users[cyc_done + 1]
           reply == notification_apps_diff(usr.deadline, apps_cur)
       IN sent' = IF reply = <<>> THEN sent ELSE sent \cup {Message(usr, reply)}
    /\ cyc_done' = cyc_done + 1
    /\ UNCHANGED <<today, apps, users, sched_pc, dl_result, apps_cur, cyc_users, last, replies>>

CycleStore_BeforeLoopEnds ==
    /\ sched_pc = "notify"
    /\ cyc_done <= Len(cyc_users)
    /\ apps' = store_new_appointments(apps_cur)
    /\ sched_pc' = "idle"
    /\ apps_cur' = <<>>
    /\ cyc_users' = <<>>
    /\ cyc_done' = 0
    /\ sent' = {}
    /\ UNCHANGED <<today, users, dl_result, last, replies>>

\* check_appointments_and_notify, lines 362-364
CycleStore ==
    /\ sched_pc = "notify"
    /\ cyc_done = Len(cyc_users)
    /\ apps' = store_new_appointments(apps_cur)
    /\ sched_pc' = "idle"
    /\ apps_cur' = <<>>
    /\ cyc_users' = <<>>
    /\ cyc_done' = 0
    /\ sent' = {}
    /\ UNCHANGED <<today, users, dl_result, last, replies>>

RefreshIfUnused_OwnThread(dl) ==
    /\ sched_pc \in {"idle", "notify"}
    /\ IF user_repo_empty
       THEN /\ apps' = store_new_appointments(dl)
            /\ dl_result' = "ok"
       ELSE UNCHANGED <<apps, dl_result>>
    /\ UNCHANGED <<today, users, sched_pc, cycle_locals, last, replies>>

\* refresh_if_unused with _refresh_db
RefreshIfUnused(dl) ==
    /\ sched_pc = "idle"
    /\ IF user_repo_empty
       THEN /\ apps' = store_new_appointments(dl)
            /\ dl_result' = "ok"
       ELSE UNCHANGED <<apps, dl_result>>
    /\ UNCHANGED <<today, users, sched_pc, cycle_locals, last, replies>>

\* _refresh_db, line 371: the download raises in the scheduler thread
RefreshDownloadFails ==
    /\ sched_pc = "idle"
    /\ user_repo_empty
    /\ dl_result' = "failed"
    /\ sched_pc' = "dead"
    /\ UNCHANGED <<today, apps, users, cycle_locals, last, replies>>

\* midnight: datetime.date.today() moves on
Tick ==
    /\ today <= MaxDay
    /\ today' = today + 1
    /\ UNCHANGED <<apps, users, sched_pc, dl_result, cycle_locals, last, replies>>

Handler ==
    \/ \E c \in Chats, d \in Deadlines : new_deadline(c, d)
    \/ \E c \in Chats : delete_user(c)

\* the jobs _setup_schedule runs, for as long as its thread lives
Scheduler ==
    \/ \E dl \in Downloads : CycleBegin(dl)
    \/ CycleDownloadFails
    \/ CycleNotify
    \/ CycleStore
    \/ \E dl \in Downloads : RefreshIfUnused(dl)
    \/ RefreshDownloadFails

Next ==
    \/ \E dl \in Downloads : ImportAppointments(dl)
    \/ ImportDownloadFails
    \/ Handler
    \/ Scheduler
    \/ Tick

Spec == Init /\ [][Next]_vars

\* schedule.run_pending() is called every second: a due job is run
FairSpec == Spec /\ WF_vars(Scheduler)

\* The refresh cycle on its own, from any stored table and any subscribers,
\* with downloads at every location and time of day
CycleDeadlines == {0, FarDay, FarDay + 1}

AllDeadlines == Deadlines \cup CycleDeadlines

\* the tables an import can leave
Tables == {WithFreshIds(Distinct(dl), {}) : dl \in AllDownloads}

UserTables ==
    {U \in SUBSET {User(c, d) : c \in Chats, d \in CycleDeadlines} :
        \A u, v \in U : u.chat_id = v.chat_id => u = v}

CycleInit ==
    /\ today = 0
    /\ apps \in Tables
    /\ users \in UserTables
    /\ sched_pc = "idle"
    /\ dl_result = "ok"
    /\ apps_cur = <<>>
    /\ cyc_users = <<>>
    /\ cyc_done = 0
    /\ sent = {}
    /\ last = NoRequest
    /\ replies = <<>>

CycleNext ==
    \/ \E dl \in AllDownloads : CycleBegin(dl)
    \/ CycleNotify
    \/ CycleStore

CycleSpec == CycleInit /\ [][CycleNext]_vars

\* The command handlers on their own, over any stored table
HandlerInit ==
    /\ today = 0
    /\ apps \in Tables
    /\ users = {}
    /\ sched_pc = "idle"
    /\ dl_result = "ok"
    /\ apps_cur = <<>>
    /\ cyc_users = <<>>
    /\ cyc_done = 0
    /\ sent = {}
    /\ last = NoRequest
    /\ replies = <<>>

HandlerNext ==
    \/ \E c \in Chats, d \in AllDeadlines : new_deadline(c, d)
    \/ \E c \in Chats : delete_user(c)
    \/ Tick

HandlerSpec == HandlerInit /\ [][HandlerNext]_vars

\* The early-threshold classifier on its own: /deadline requests of one chat
\* over any stored table of up to MaxSnapshot appointments on ScenarioDays
ScenarioDays == {1, 2, 8, 10, 20}

ClassifierSlots ==
    {Appointment(NoId, d * SlotsPerDay + t, 1) : d \in ScenarioDays, t \in Slots}
        \cup {Appointment(NoId, d * SlotsPerDay, 2) : d \in ScenarioDays}

ClassifierTables ==
    {WithFreshIds(dl, {}) :
        dl \in {l \in ListsUpTo(MaxSnapshot, ClassifierSlots) : Distinct(l) = l}}

ClassifierDeadlines == {2, 21}

ClassifierInit ==
    /\ today = 0
    /\ apps \in ClassifierTables
    /\ users = {}
    /\ sched_pc = "idle"
    /\ dl_result = "ok"
    /\ apps_cur = <<>>
    /\ cyc_users = <<>>
    /\ cyc_done = 0
    /\ sent = {}
    /\ last = NoRequest
    /\ replies = <<>>

ClassifierNext == \E d \in ClassifierDeadlines : new_deadline(1, d)

ClassifierSpec == ClassifierInit /\ [][ClassifierNext]_vars

\* The rendering on its own: /deadline and /stop requests of one chat over
\* stored tables with up to MaxTimes times on a date, up to MaxDates dates at
\* a location, or two locations, each before a far appointment that makes
\* its date the date considered early
RECURSIVE SeqOfSet(_)
SeqOfSet(S) ==
    IF S = {} THEN <<>>
    ELSE LET x == CHOOSE y \in S : TRUE IN <<x>> \o SeqOfSet(S \ {x})

Rotate(lst) == IF lst = <<>> THEN <<>> ELSE Tail(lst) \o <<Head(lst)>>

\* the orders in which a set of slots is stored
Arrangements(S) ==
    {SortApps(SeqOfSet(S), FALSE), SortApps(SeqOfSet(S), TRUE),
     Rotate(SortApps(SeqOfSet(S), FALSE))}

FormatFarDay == MaxDates + GapDays + 2

FarAppointment == Appointment(NoId, FormatFarDay * SlotsPerDay, 2)

TimesSlots == {Appointment(NoId, SlotsPerDay + t, 1) : t \in 0..(MaxTimes - 1)}

DatesSlots ==
    {Appointment(NoId, d * SlotsPerDay, 1) : d \in 1..MaxDates}
        \cup {Appointment(NoId, d * SlotsPerDay + 1, 1) : d \in {1, MaxDates - 1, MaxDates}}

LocationsSlots ==
    {Appointment(NoId, d * SlotsPerDay + t, loc) : d \in {1, 2}, t \in Slots, loc \in Locations}

FormatTables ==
    {WithFreshIds(Rotate(l \o <<FarAppointment>>), {}) :
        l \in UNION {Arrangements(S) :
                S \in SUBSET TimesSlots \cup SUBSET DatesSlots \cup SUBSET LocationsSlots}}

FormatDeadlines == {2, FormatFarDay, FormatFarDay + 1}

FormatInit ==
    /\ today = 0
    /\ apps \in FormatTables
    /\ users = {}
    /\ sched_pc = "idle"
    /\ dl_result = "ok"
    /\ apps_cur = <<>>
    /\ cyc_users = <<>>
    /\ cyc_done = 0
    /\ sent = {}
    /\ last = NoRequest
    /\ replies = <<>>

FormatNext ==
    \/ \E d \in FormatDeadlines : new_deadline(1, d)
    \/ delete_user(1)

FormatSpec == FormatInit /\ [][FormatNext]_vars

\* ------------------------------------------------------------------ claims
\* the identity of a slot, and the slots of a list
Key(a) == <<a.date_time, a.location_id>>
Keys(lst) == {Key(lst[i]) : i \in DOMAIN lst}

\* the users the loop of the cycle in progress has visited
Visited == {cyc_users[i] : i \in 1..cyc_done}

\* C1: for every deadline, the list app_new of the diff is exactly the
\* downloaded appointments before the deadline whose (date_time, location_id)
\* no stored appointment has, and app_gone is exactly the stored appointments
\* before the deadline whose (date_time, location_id) no downloaded
\* appointment has; the ids of the rows play no part.
C1_DiffByValue ==
    \A D \in AllDeadlines :
        /\ app_new(D, apps_cur) =
              SelectSeq(apps_cur, LAMBDA a :
                  Date(a.date_time) < D /\ Key(a) \notin Keys(apps))
        /\ app_gone(D, apps_cur) =
              SelectSeq(apps, LAMBDA o :
                  Date(o.date_time) < D /\ Key(o) \notin Keys(apps_cur))

\* a diff, already composed for a user, with a new slot and an unchanged one
\* that is stored under an id the downloaded object does not have
C1_Witness ==
    /\ sched_pc = "notify"
    /\ \E u \in Visited :
         /\ app_new(u.deadline, apps_cur) # <<>>
         /\ \E i \in DOMAIN apps, j \in DOMAIN apps_cur :
              /\ Key(apps[i]) = Key(apps_cur[j])
              /\ apps[i].id # apps_cur[j].id
              /\ Date(apps[i].date_time) < u.deadline

\* C2: a cycle whose download holds the same slots as the stored table sends
\* no message to any subscriber.
C2_CycleSkip ==
    (sched_pc = "notify" /\ Keys(apps_cur) = Keys(apps)) => sent = {}

\* a cycle that got past the comparison of the lists (the download is the
\* stored set in another order or with a slot twice) and has visited every
\* user, one of them with stored appointments before the deadline
C2_Witness ==
    /\ sched_pc = "notify"
    /\ Keys(apps_cur) = Keys(apps)
    /\ cyc_done = Len(cyc_users)
    /\ \E u \in Visited : appointments_earlier_than(u.deadline) # <<>>

\* the lines of a text that show a date
DateLines(text) == {text[i] : i \in {j \in DOMAIN text : text[j].kind = "date"}}

\* C3: for every deadline D, the text notification_apps_diff composes shows,
\* in the block of the new and in the block of the gone appointments, only
\* dates strictly before D; so does every message a cycle has sent.
C3_DeadlineFiltering ==
    /\ \A D \in AllDeadlines :
         \A l \in DateLines(notification_apps_diff(D, apps_cur)) : l.date < D
    /\ \A m \in sent : \A l \in DateLines(m.text) : l.date < m.deadline

\* a message was sent although a slot dated on the deadline itself was added
\* or removed as well
C3_Witness ==
    \E m \in sent :
        /\ DateLines(m.text) # {}
        /\ \/ \E i \in DOMAIN apps_cur :
                /\ Date(apps_cur[i].date_time) = m.deadline
                /\ Key(apps_cur[i]) \notin Keys(apps)
           \/ \E i \in DOMAIN apps :
                /\ Date(apps[i].date_time) = m.deadline
                /\ Key(apps[i]) \notin Keys(apps_cur)

\* an appointment before the deadline was added or removed by the download
RelevantChange(deadline) ==
    \/ \E i \in DOMAIN apps_cur :
         Date(apps_cur[i].date_time) < deadline /\ Key(apps_cur[i]) \notin Keys(apps)
    \/ \E i \in DOMAIN apps :
         Date(apps[i].date_time) < deadline /\ Key(apps[i]) \notin Keys(apps_cur)

\* C4: a user the loop has visited was sent a message if and only if an
\* appointment before the user's deadline was added or removed; nobody is
\* sent an empty text, and nobody else is sent anything.
C4_NotifiedIffRelevant ==
    sched_pc = "notify" =>
        /\ \A u \in Visited :
             (\E m \in sent : m.chat_id = u.chat_id) <=> RelevantChange(u.deadline)
        /\ \A m \in sent :
             /\ m.text # <<>>
             /\ \E u \in Visited : u.chat_id = m.chat_id /\ u.deadline = m.deadline

\* both users visited: one was sent a message, the other was skipped
C4_Witness ==
    /\ sched_pc = "notify"
    /\ cyc_done = 2
    /\ Cardinality(sent) = 1

\* C5: a /deadline request with a date before today leaves the users table
\* as it is and is not answered as a subscription or an update; a request with
\* today's date is not answered as being in the past.
C5_DeadlineInPast ==
    [][\A c \in Chats, d \in AllDeadlines :
          new_deadline(c, d) =>
              /\ d < today => (users' = users /\ last'.reply \notin {"added", "updated"})
              /\ d = today => last'.reply # "in_past"]_vars

\* a subscriber asked for a date before today, was told so, and is still
\* subscribed
C5_Witness ==
    /\ last.op = "deadline"
    /\ last.deadline < today
    /\ last.reply = "in_past"
    /\ rows_by_chat_id(last.chat_id) # {}

\* no address has two rows in the users table
AtMostOnePerAddress == \A c \in Chats : Cardinality(rows_by_chat_id(c)) <= 1

\* C6 as stated: once a /deadline request with a date that is not in the past
\* has been answered, the users table holds exactly the row (address, date)
\* for the address.
C6_EveryRequestSubscribes ==
    [][\A c \in Chats, d \in AllDeadlines :
          (new_deadline(c, d) /\ d >= today /\ last'.reply # "IndexError") =>
              {u \in users' : u.chat_id = c} = {User(c, d)}]_vars

\* C6, amended: a /deadline request with a date that is not in the past and
\* not later than the date considered early of a non-empty appointments table
\* leaves exactly the row (address, date) for the address and every other
\* row as it was; a request with a later date, or one handled while the
\* appointments table is empty, leaves the users table as it was; and no
\* address ever has two rows.
C6_Lifecycle ==
    /\ []AtMostOnePerAddress
    /\ [][\A c \in Chats, d \in AllDeadlines :
             new_deadline(c, d) =>
                 IF get_date_considered_early_raises
                 THEN users' = users
                 ELSE /\ (d >= today /\ d <= get_date_considered_early) =>
                           /\ {u \in users' : u.chat_id = c} = {User(c, d)}
                           /\ {u \in users' : u.chat_id # c} =
                                 {u \in users : u.chat_id # c}
                      /\ d > get_date_considered_early => users' = users]_vars

\* a subscriber's deadline was updated in place while the other address is
\* subscribed as well
C6_Witness ==
    /\ last.reply = "updated"
    /\ rows_by_chat_id(last.chat_id) = {User(last.chat_id, last.deadline)}
    /\ Cardinality(users) = MaxChats

\* a subscriber whose deadline is today or earlier
Expired(c) == \E u \in rows_by_chat_id(c) : u.deadline <= today

\* C7: while the scheduler thread lives, a subscriber whose deadline has been
\* reached is eventually deleted from the users table.
C7_AutoExpiry ==
    []<>(sched_pc = "idle") =>
        \A c \in Chats : [](Expired(c) => <>(rows_by_chat_id(c) = {}))

\* C8: once a download has failed, the appointments table is never written,
\* no diff is in progress and no message is sent.
C8_FailureIsNotEmptySnapshot ==
    [][dl_result' = "failed" =>
          (apps' = apps /\ sent' = {} /\ sched_pc' # "notify")]_vars

\* the download of a cycle failed while a subscriber had stored appointments
\* before the deadline, which an empty snapshot would have reported as gone
C8_Witness ==
    /\ dl_result = "failed"
    /\ sched_pc = "dead"
    /\ \E u \in users : appointments_earlier_than(u.deadline) # <<>>

\* C9: a cycle whose download fails ends with the scheduler ready to run the
\* cycle again at the next interval.
C9_RetryAfterFailure ==
    [][CycleDownloadFails => sched_pc' = "idle"]_vars

\* C10: the /deadline handler never fails with the IndexError of
\* get_date_considered_early on an empty appointments table.
C10_EmptyInputGuard == last.reply # "IndexError"

\* the calendar dates and the date_times of a list of appointments
DatesOf(lst) == {Date(lst[i].date_time) : i \in DOMAIN lst}
DateTimesOf(lst) == {lst[i].date_time : i \in DOMAIN lst}

MinOf(S) == CHOOSE x \in S : \A y \in S : x <= y
MaxOf(S) == CHOOSE x \in S : \A y \in S : x >= y

\* the elements of S that follow their predecessor in S at a distance for
\* which far(later, earlier) holds
AfterGap(S, far(_, _)) ==
    {d \in S : \E e \in S : /\ e < d
                             /\ far(d, e)
                             /\ \A f \in S : ~(e < f /\ f < d)}

\* the cutoff by calendar dates: the later date of the first pair of
\* consecutive distinct dates, from the latest down, more than GapDays apart
CutoffOfDates(S) ==
    LET after == AfterGap(S, LAMBDA d, e : d - e > GapDays)
    IN IF after = {} THEN MinOf(S) ELSE MaxOf(after)

\* the cutoff by date_times: the date of the later of the first pair of
\* consecutive distinct date_times, from the latest down, whose difference
\* is more than GapDays whole days
CutoffOfDateTimes(T) ==
    LET after == AfterGap(T, LAMBDA t, e : (t - e) \div SlotsPerDay > GapDays)
    IN IF after = {} THEN Date(MinOf(T)) ELSE Date(MaxOf(after))

\* C11 as stated: the cutoff a summary reply names is the cutoff by calendar
\* dates of the set of the dates of the stored table, whatever the times of
\* day, the locations and the number of appointments on a date.
C11_CutoffByDates ==
    last.reply = "summary" => replies[1][1].date = CutoffOfDates(DatesOf(apps))

\* C11, amended: the cutoff of a non-empty stored table is the cutoff by
\* date_times of the set of its date_times, whatever the locations and the
\* number of appointments at a date_time; a summary reply names that date.
C11_CutoffByDateTimes ==
    apps # <<>> =>
        /\ get_date_considered_early = CutoffOfDateTimes(DateTimesOf(apps))
        /\ last.reply = "summary" =>
               replies[1][1].date = CutoffOfDateTimes(DateTimesOf(apps))

\* a summary was sent for a table with two dates a week apart whose
\* date_times are less than a week apart, and a slot offered at two locations
C11_Witness ==
    /\ last.reply = "summary"
    /\ \E i, j \in DOMAIN apps :
          /\ Date(apps[i].date_time) - Date(apps[j].date_time) = GapDays + 1
          /\ DeltaDays(apps[i], apps[j]) = GapDays
    /\ \E i, j \in DOMAIN apps :
          apps[i].date_time = apps[j].date_time /\ apps[i].location_id # apps[j].location_id

\* consecutive distinct dates of S are never more than GapDays apart
NoGap(S) == AfterGap(S, LAMBDA d, e : d - e > GapDays) = {}

\* C12: a non-empty stored table whose consecutive distinct dates are never
\* more than 6 days apart has its earliest date as the cutoff.
C12_ThresholdMonotonicity ==
    (apps # <<>> /\ NoGap(DatesOf(apps))) =>
        get_date_considered_early = MinOf(DatesOf(apps))

\* a /deadline request was answered over a table of three dates, two of them
\* exactly GapDays apart, and no gap
C12_Witness ==
    /\ last.op = "deadline"
    /\ NoGap(DatesOf(apps))
    /\ Cardinality(DatesOf(apps)) = 3
    /\ \E d, e \in DatesOf(apps) : d - e = GapDays

\* Scenario C: appointments on exactly the 1st, 2nd, 10th and 20th
ScenarioC == DatesOf(apps) = {1, 2, 10, 20}

\* C13 as stated: in Scenario C the cutoff a summary reply names is the 10th.
C13_ScenarioC_Tenth ==
    (ScenarioC /\ last.reply = "summary") => replies[1][1].date = 10

\* C13, amended: in Scenario C the cutoff is the 20th, the later side of the
\* gap met first when walking down from the latest date.
C13_ScenarioC_Twentieth ==
    ScenarioC =>
        /\ get_date_considered_early = 20
        /\ last.reply = "summary" => replies[1][1].date = 20

\* a /deadline request for the 21st was answered with the summary in Scenario C
C13_Witness ==
    /\ ScenarioC
    /\ last.reply = "summary"
    /\ last.deadline = 21

\* the listing of the stored appointments a /deadline request was answered
\* with, after the confirmation of the subscription
Subscribed == last.reply \in {"added", "updated"}
Listing == IF Len(replies) >= 2 THEN replies[2] ELSE <<>>

\* the stored appointments before the deadline of the last request, and
\* those of them at a location and on a date
Early == appointments_earlier_than(last.deadline)
EarlyAt(loc) == SelectSeq(Early, LAMBDA a : a.location_id = loc)
EarlyOn(loc, date) == SelectSeq(EarlyAt(loc), LAMBDA a : Date(a.date_time) = date)

\* the lines of a text that follow the line of a location, up to the next
\* location
BlockOf(text, loc) ==
    LET at == {i \in DOMAIN text :
                  text[i].kind = "location" /\ text[i].name = LocationName(loc)}
        i == MinOf(at)
        next == {j \in DOMAIN text : j > i /\ text[j].kind = "location"}
    IN IF at = {} THEN <<>>
       ELSE SubSeq(text, i + 1, IF next = {} THEN Len(text) ELSE MinOf(next) - 1)

\* the times of day of a list of appointments, in ascending order
TimesAscending(lst) == SortedInts({TimeOf(lst[i].date_time) : i \in DOMAIN lst})

\* the dates a location's block shows in full
DatesShown(loc) ==
    LET dates == SortedInts(DatesOf(EarlyAt(loc)))
    IN SubSeq(dates, 1, IF Len(dates) < SplitAt THEN Len(dates) ELSE SplitAt)

\* the line of a date with n times that shows the first keep of them
DateLine(loc, date, keep) ==
    LET times == TimesAscending(EarlyOn(loc, date))
    IN Line("date", 0, date, SubSeq(times, 1, keep), Len(times) - keep)

\* C14 as stated: in a listing, a date with at most 5 stored times shows all
\* of them in ascending order and a date with more shows all but the last 2
\* and the count 2 (6 times: the 4 earliest and +2).
C14_TruncationKeepsAllButTwo ==
    Subscribed =>
        \A loc \in Locations : \A k \in DOMAIN DatesShown(loc) :
            LET date == DatesShown(loc)[k]
                n == Len(EarlyOn(loc, date))
            IN BlockOf(Listing, loc)[k] =
                  DateLine(loc, date, IF n <= SplitAt THEN n ELSE n - ShortenBy)

\* C14, amended: in a listing, a date with at most 5 stored times shows all of
\* them in ascending order and a date with more shows the 3 earliest and the
\* count of the others (6 times: the 3 earliest and +3).
C14_TruncationKeepsThree ==
    Subscribed =>
        \A loc \in Locations : \A k \in DOMAIN DatesShown(loc) :
            LET date == DatesShown(loc)[k]
                n == Len(EarlyOn(loc, date))
            IN BlockOf(Listing, loc)[k] =
                  DateLine(loc, date, IF n <= SplitAt THEN n ELSE SplitAt - ShortenBy)

\* a listing was sent for a date with exactly 6 stored times
C14_Witness ==
    /\ Subscribed
    /\ \E loc \in Locations : \E k \in DOMAIN DatesShown(loc) :
          /\ Len(EarlyOn(loc, DatesShown(loc)[k])) = SplitAt + 1
          /\ BlockOf(Listing, loc)[k].count = SplitAt + 1 - (SplitAt - ShortenBy)

\* C15: in a listing, the block of a location with k distinct dates shows the
\* min(k, 5) earliest dates, one line each in ascending order; if k > 5 one
\* more line follows, with the number of appointments on the other dates
\* and the singular wording iff that number is 1; if k <= 5 nothing follows.
C15_TruncationOfDates ==
    Subscribed =>
        \A loc \in {l \in Locations : EarlyAt(l) # <<>>} :
            LET dates == SortedInts(DatesOf(EarlyAt(loc)))
                k == Len(dates)
                shown == DatesShown(loc)
                block == BlockOf(Listing, loc)
                rest == Len(SelectSeq(EarlyAt(loc),
                            LAMBDA a : \E i \in (SplitAt + 1)..k : Date(a.date_time) = dates[i]))
            IN /\ Len(block) = Len(shown) + (IF k > SplitAt THEN 1 ELSE 0)
               /\ \A i \in DOMAIN shown :
                     block[i].kind = "date" /\ block[i].date = shown[i]
               /\ k > SplitAt =>
                     block[Len(block)] =
                         Line(IF rest = 1 THEN "one_more" ELSE "n_more", 0, 0, <<>>, rest)

\* a listing was sent for a location with 7 dates, 2 appointments on one of
\* the first 5 and 1 appointment on each of the others
C15_Witness ==
    /\ Subscribed
    /\ \E loc \in Locations :
          /\ Cardinality(DatesOf(EarlyAt(loc))) = SplitAt + 2
          /\ Len(EarlyAt(loc)) = SplitAt + 3
          /\ BlockOf(Listing, loc)[SplitAt + 1] = Line("n_more", 0, 0, <<>>, 2)

RECURSIVE Represented(_)
\* the number of appointments a text accounts for: the times shown and the
\* counts of those left out
Represented(text) ==
    IF text = <<>> THEN 0
    ELSE (IF Head(text).kind \in {"date", "one_more", "n_more"}
          THEN Len(Head(text).times) + Head(text).count
          ELSE 0) + Represented(Tail(text))

\* the names on the location lines of a text, in order
LocationNames(text) ==
    LET lines == SelectSeq(text, LAMBDA l : l.kind = "location")
    IN [i \in DOMAIN lines |-> lines[i].name]

\* C16: the listing sent after a subscription is never empty; it is the fixed
\* sentence 'no appointments before your deadline' iff no stored appointment
\* is dated before the deadline; otherwise it is a header followed by one
\* block per location with such appointments, in ascending location_id,
\* that accounts for each of them and shows no date on or after the deadline.
C16_StoredAppsNeverEmpty ==
    Subscribed =>
        /\ Len(replies) = 2
        /\ Listing # <<>>
        /\ Listing = <<Text("none_before_deadline")>> <=> Early = <<>>
        /\ Early # <<>> =>
              LET loc_ids == SortedInts({Early[i].location_id : i \in DOMAIN Early})
              IN /\ Listing[1] = Text("header_before_deadline")
                 /\ \A i \in 2..Len(Listing) :
                       Listing[i].kind \in {"location", "date", "one_more", "n_more"}
                 /\ LocationNames(Listing) =
                       [i \in DOMAIN loc_ids |-> LocationName(loc_ids[i])]
                 /\ Represented(Listing) = Len(Early)
                 /\ \A l \in DateLines(Listing) : l.date < last.deadline

\* a subscriber repeated a deadline with no stored appointment before it and
\* was sent the fixed sentence, while appointments of two locations are
\* stored, one of them dated on the deadline
C16_Witness ==
    /\ last.reply = "updated"
    /\ Early = <<>>
    /\ Listing = <<Text("none_before_deadline")>>
    /\ Cardinality({apps[i].location_id : i \in DOMAIN apps}) = 2
    /\ \E i \in DOMAIN apps : Date(apps[i].date_time) = last.deadline

\* the summary for a deadline: the number of stored appointments dated before
\* it, in the singular wording iff it is 1, and the date considered early
SummaryFor(deadline) ==
    LET n == Cardinality({i \in DOMAIN apps : Date(apps[i].date_time) < deadline})
    IN <<Line(IF n = 1 THEN "summary_one" ELSE "summary_many",
              0, get_date_considered_early, <<>>, n)>>

\* the messages hold a listing of stored appointments or the fixed sentence
HasListing(msgs) ==
    \E i \in DOMAIN msgs :
        msgs[i][1].kind \in {"header_before_deadline", "none_before_deadline"}

\* C17 as stated: over a non-empty table, a /deadline request with a date
\* later than the date considered early is answered with the summary alone,
\* and a request with any other date is answered with the listing of the
\* stored appointments before the deadline, or the fixed sentence.
C17_SummaryOrListing ==
    [][\A c \in Chats, d \in AllDeadlines :
          (new_deadline(c, d) /\ ~get_date_considered_early_raises) =>
              IF d > get_date_considered_early
              THEN replies' = <<SummaryFor(d)>>
              ELSE HasListing(replies')]_vars

\* C17, amended: over a non-empty table, a /deadline request with a date
\* later than the date considered early is answered with the summary alone;
\* a request with any other date is answered with the rejection alone if
\* the date is before today, and otherwise with the confirmation followed
\* by the listing of the stored appointments before the deadline, or the
\* fixed sentence.
C17_SummaryRejectionOrListing ==
    [][\A c \in Chats, d \in AllDeadlines :
          (new_deadline(c, d) /\ ~get_date_considered_early_raises) =>
              IF d > get_date_considered_early
              THEN replies' = <<SummaryFor(d)>>
              ELSE IF d < today
              THEN replies' = <<<<Text("deadline_in_past")>>>>
              ELSE /\ Len(replies') = 2
                   /\ replies'[1] \in {<<Text("added")>>, <<Text("updated")>>}
                   /\ HasListing(<<replies'[2]>>)]_vars

\* a subscriber asked for a date later than the date considered early, with
\* exactly one stored appointment before it, and was sent the summary only
C17_Witness ==
    /\ last.reply = "summary"
    /\ rows_by_chat_id(last.chat_id) # {}
    /\ last.deadline > get_date_considered_early
    /\ Len(appointments_earlier_than(last.deadline)) = 1
    /\ replies = <<SummaryFor(last.deadline)>>

\* C18: when a cycle stores its download B over the stored table A, then for
\* every deadline the appointments the diff reported as new (from A to B)
\* are those a diff of the new table against the download A reports as gone
\* (from B to A), and those reported as gone are those then reported as new.
C18_DiffSymmetry ==
    [][CycleStore =>
          \A A \in {apps}, B \in {apps_cur}, D \in AllDeadlines :
              /\ Keys(app_new(D, B)) = Keys(app_gone(D, A))'
              /\ Keys(app_gone(D, B)) = Keys(app_new(D, A))']_vars

\* a cycle is about to store a download that has, before the deadline of a
\* user it has notified, a new appointment and lacks a stored one, while an
\* appointment dated later is stored as well
C18_Witness ==
    /\ sched_pc = "notify"
    /\ cyc_done = Len(cyc_users)
    /\ \E u \in Visited :
          /\ app_new(u.deadline, apps_cur) # <<>>
          /\ app_gone(u.deadline, apps_cur) # <<>>
          /\ \E i \in DOMAIN apps : Date(apps[i].date_time) >= u.deadline

\* C19: while a run of check_appointments_and_notify is in progress, no
\* other refreshing job runs: the run is not started again, its download and
\* its list of users stay as they are, and the appointments table is written
\* only by the store that ends the run.
C19_RefreshSerialized ==
    [][sched_pc = "notify" =>
          \/ /\ sched_pc' = "notify"
             /\ apps' = apps
             /\ apps_cur' = apps_cur
             /\ cyc_users' = cyc_users
             /\ cyc_done' \in {cyc_done, cyc_done + 1}
          \/ /\ sched_pc' = "idle"
             /\ cyc_done = Len(cyc_users)
             /\ apps' = store_new_appointments(apps_cur)]_vars

\* a run is in progress with a user still to visit, and meanwhile the last
\* user has unsubscribed, so that refresh_if_unused would store a download
C19_Witness ==
    /\ sched_pc = "notify"
    /\ cyc_done < Len(cyc_users)
    /\ user_repo_empty
    /\ last.reply = "stopped"

\* a list with one appointment for every slot of a list
OneOfEach(lst) == SeqOfSet({Appointment(NoId, k[1], k[2]) : k \in Keys(lst)})

\* no element occurs twice in a sequence
NoRepeat(seq) == \A i, j \in DOMAIN seq : seq[i] = seq[j] => i = j

\* C20: every message of a cycle is the text the diff composes from a
\* download with the same slots once each, and shows no time twice on a date
\* line.
C20_RenderingDeterminism ==
    \A m \in sent :
        /\ m.text = notification_apps_diff(m.deadline, OneOfEach(apps_cur))
        /\ \A l \in DateLines(m.text) : NoRepeat(l.times)

\* the diff of run_cycle: the slots added and removed between two lists, and
\* the slots of a set dated before a deadline
Added(old, new) == Keys(new) \ Keys(old)
Removed(old, new) == Keys(old) \ Keys(new)
KeysBefore(K, deadline) == {k \in K : Date(k[1]) < deadline}

\* C21: for every deadline, the slots of the lists app_new and app_gone, which
\* the diff takes from the two tables filtered by the deadline, are the
\* slots added and removed between the whole tables, filtered by the
\* deadline afterwards.
C21_FilterThenDiffIsDiffThenFilter ==
    \A D \in AllDeadlines :
        /\ Keys(app_new(D, apps_cur)) = KeysBefore(Added(apps, apps_cur), D)
        /\ Keys(app_gone(D, apps_cur)) = KeysBefore(Removed(apps, apps_cur), D)

\* a user was sent a diff with a slot gone before the deadline while another
\* slot, dated on or after the deadline, is gone as well
C21_Witness ==
    /\ sched_pc = "notify"
    /\ \E u \in Visited :
          /\ \E m \in sent : m.chat_id = u.chat_id
          /\ app_gone(u.deadline, apps_cur) # <<>>
          /\ \E k \in Removed(apps, apps_cur) : Date(k[1]) >= u.deadline

\* C22: whenever the download and the stored table hold the same set of
\* (date_time, location_id) slots, in whatever order the two lists come, the
\* cycle returns at once: it goes on to the users, and from there to the
\* store, only with a download whose set of slots differs from the stored one.
C22_EarlyExitComparesSets ==
    [][(sched_pc = "idle" /\ sched_pc' = "notify")
          => Keys(apps_cur') # Keys(apps)]_vars

C24_NoChangeMissed ==
    (sched_pc = "notify" /\ cyc_done = Len(cyc_users)) =>
        \A u \in users :
            notification_apps_diff(u.deadline, apps_cur) # <<>> =>
                \E m \in sent :
                    /\ m.chat_id = u.chat_id
                    /\ m.text = notification_apps_diff(u.deadline, apps_cur)

\* C25: unsubscribing is final. A cycle sends a diff only to a chat that is
\* subscribed at that moment, so none to a chat whose /stop has completed and
\* that has sent no /deadline since, also not in a cycle that was in progress
\* when the /stop was handled; and a /stop from a chat without a subscriber
\* leaves the users table as it is.
C25_UnsubscribeIsFinal ==
    [][/\ \A m \in sent' \ sent : \E u \in users : u.chat_id = m.chat_id
       /\ (last'.op = "stop" /\ last'.reply = "no_user") => users' = users]_vars

\* a step of the scheduler thread taken with no row in the users table:
\* no cycle begins, so nothing is kept of a download and nothing is sent
NoCycleWithoutUsers ==
    (sched_pc = "idle" /\ user_repo_empty) =>
        /\ sched_pc' # "notify"
        /\ cycle_locals' = cycle_locals

\* the initial import into the empty table, and refresh_if_unused
ByImport == sched_pc = "import" /\ app_repo_empty
ByRefresh == sched_pc = "idle" /\ user_repo_empty /\ sched_pc' = "idle"

\* C26 as stated: with no row in the users table at its start the cycle does
\* not download, sends nothing and leaves the appointments table alone; and
\* whenever the users table is empty, the stored table is replaced only by
\* refresh_if_unused or by the initial import.
C26_OnlyRefreshWithoutUsers ==
    [][/\ NoCycleWithoutUsers
       /\ (user_repo_empty /\ apps' # apps) => (ByImport \/ ByRefresh)]_vars

\* C26, amended: with no row in the users table at its start the cycle does
\* not download, sends nothing and leaves the appointments table alone; the
\* stored table is replaced only by the initial import, by refresh_if_unused
\* when a job starts with no users, or by a cycle that listed at least one
\* user when it began, whether or not a user is left when it stores.
C26_NoCycleStartsWithoutUsers ==
    [][/\ NoCycleWithoutUsers
       /\ apps' # apps =>
             \/ ByImport
             \/ ByRefresh
             \/ sched_pc = "notify" /\ cyc_users # <<>>]_vars

\* the last user has unsubscribed, the scheduler is between two jobs, and
\* a store has replaced the imported table (row 1 is gone, row 2 is kept)
C26_Witness ==
    /\ sched_pc = "idle"
    /\ user_repo_empty
    /\ last.op = "stop"
    /\ last.reply = "stopped"
    /\ apps # <<>>
    /\ apps[1].id = 2

====
